---- MODULE Spec2Model ----
(***************************************************************************)
(* Quarto rules engine (src/src/game_logic/rules_engine.py) over the       *)
(* GameState container (src/src/game_logic/game_state.py).                 *)
(*                                                                         *)
(* game_state is the one GameState instance the engine mutates in place.   *)
(* op and ret record the last call made on it and how that call ended      *)
(* (a returned value or a raised exception).  start_player is a history    *)
(* variable: the current_player the game was constructed with.             *)
(***************************************************************************)
EXTENDS Integers, Sequences, FiniteSets, TLC

VARIABLES game_state, start_player, op, ret

vars == <<game_state, start_player, op, ret>>

(***************************************************************************)
(* Bounds on the arguments the callers try.                                *)
(***************************************************************************)
\* the cells 0..MaxCell, counted row by row from (0, 0), are tried as
\* in-range cells (besides the out-of-range ones)
MaxCell == 5
\* piece ids 0..MaxPieceId are tried (besides the out-of-range -1 and 16)
MaxPieceId == 2

OutOfRangeCells ==
    {<<-1, 0>>, <<4, 0>>, <<0, -1>>, <<0, 4>>, <<-1, -1>>, <<4, 4>>}
MoveInputs ==
    {cell \in (0 .. 3) \X (0 .. 3) : 4 * cell[1] + cell[2] <= MaxCell}
        \cup OutOfRangeCells
PieceIdInputs == (-1 .. MaxPieceId) \cup {16}

(***************************************************************************)
(* Enumerations and values.                                                *)
(***************************************************************************)
ONGOING == "ongoing"
FINISHED == "finished"
DRAW == "draw"
GameStatus == {ONGOING, FINISHED, DRAW}

PLAYER1 == "player1"
PLAYER2 == "player2"
ROBOT == "robot"
Player == {PLAYER1, PLAYER2, ROBOT}

\* Python's None where a QuartoPiece or a list is optional
None == [none |-> TRUE]
\* Python's None for the optional winner
NoWinner == "None"

\* how a call ends
Returned(v) == [kind |-> "return", val |-> v]
ReturnedNone == [kind |-> "return_none"]
Raised(e) == [kind |-> "raise", exc |-> e]

Bit(n, k) == (n \div (2 ^ k)) % 2

\* the attributes with square read from bit 2 instead of bit 1
PieceOf_ShapeFromBit2(piece_id) ==
    [ id     |-> piece_id,
      tall   |-> Bit(piece_id, 0) = 1,
      square |-> Bit(piece_id, 2) = 1,
      light  |-> Bit(piece_id, 2) = 1,
      solid  |-> Bit(piece_id, 3) = 1 ]

\* rules_engine.py create_piece_from_id, for an id the range check lets through
PieceOf(piece_id) ==
    [ id     |-> piece_id,
      tall   |-> Bit(piece_id, 0) = 1,
      square |-> Bit(piece_id, 1) = 1,
      light  |-> Bit(piece_id, 2) = 1,
      solid  |-> Bit(piece_id, 3) = 1 ]

create_piece_from_id(piece_id) ==
    IF ~(0 <= piece_id /\ piece_id <= 15)
    THEN Raised("ValueError")
    ELSE Returned(PieceOf(piece_id))

EmptyBoard == [row \in 0 .. 3 |-> [col \in 0 .. 3 |-> None]]

\* GameState(game_id, current_player) with every other field at its default
NewGameState(player) ==
    [ current_player   |-> player,
      board            |-> EmptyBoard,
      available_pieces |-> 0 .. 15,
      selected_piece   |-> None,
      game_status      |-> ONGOING,
      winner           |-> NoWinner,
      turn_count       |-> 0 ]

(***************************************************************************)
(* Win condition detection.                                                *)
(***************************************************************************)
\* the values an attribute takes over a list of pieces: set(attr)
AttrValues(pieces, attr) == {pieces[i][attr] : i \in DOMAIN pieces}

check_line_for_shared_attribute(pieces) ==
    IF Len(pieces) # 4
    THEN FALSE
    ELSE \E attr \in {"tall", "square", "light", "solid"} :
             Cardinality(AttrValues(pieces, attr)) = 1

\* range(4) as the list 0, 1, 2, 3 laid on the indices 1..4
RowPieces(gs, row) == [i \in 1 .. 4 |-> gs.board[row][i - 1]]
ColumnPieces(gs, col) == [i \in 1 .. 4 |-> gs.board[i - 1][col]]
MainDiagonal(gs) == [i \in 1 .. 4 |-> gs.board[i - 1][i - 1]]
AntiDiagonal(gs) == [i \in 1 .. 4 |-> gs.board[i - 1][3 - (i - 1)]]

AnyNone(pieces) == \E i \in DOMAIN pieces : pieces[i] = None

check_row_win(gs, row) ==
    IF AnyNone(RowPieces(gs, row))
    THEN FALSE
    ELSE check_line_for_shared_attribute(RowPieces(gs, row))

check_column_win(gs, col) ==
    IF AnyNone(ColumnPieces(gs, col))
    THEN FALSE
    ELSE check_line_for_shared_attribute(ColumnPieces(gs, col))

check_main_diagonal(gs) ==
    /\ ~AnyNone(MainDiagonal(gs))
    /\ check_line_for_shared_attribute(MainDiagonal(gs))

check_anti_diagonal(gs) ==
    /\ ~AnyNone(AntiDiagonal(gs))
    /\ check_line_for_shared_attribute(AntiDiagonal(gs))

\* check_diagonal_wins looking at the main diagonal only
check_diagonal_wins_MainOnly(gs) ==
    IF check_main_diagonal(gs) THEN TRUE ELSE FALSE

check_diagonal_wins(gs) ==
    IF check_main_diagonal(gs)
    THEN TRUE
    ELSE IF check_anti_diagonal(gs) THEN TRUE ELSE FALSE

\* the loop "for row in range(4): if check_row_win: return True", from row on
RECURSIVE AnyRowWinFrom(_, _)
AnyRowWinFrom(gs, row) ==
    IF row >= 4 THEN FALSE
    ELSE IF check_row_win(gs, row) THEN TRUE
    ELSE AnyRowWinFrom(gs, row + 1)

RECURSIVE AnyColumnWinFrom(_, _)
AnyColumnWinFrom(gs, col) ==
    IF col >= 4 THEN FALSE
    ELSE IF check_column_win(gs, col) THEN TRUE
    ELSE AnyColumnWinFrom(gs, col + 1)

check_for_win(gs) ==
    IF AnyRowWinFrom(gs, 0) THEN TRUE
    ELSE IF AnyColumnWinFrom(gs, 0) THEN TRUE
    ELSE IF check_diagonal_wins(gs) THEN TRUE
    ELSE FALSE

RowCoords(row) == [i \in 1 .. 4 |-> <<row, i - 1>>]
ColumnCoords(col) == [i \in 1 .. 4 |-> <<i - 1, col>>]
MainDiagonalCoords == [i \in 1 .. 4 |-> <<i - 1, i - 1>>]
AntiDiagonalCoords == [i \in 1 .. 4 |-> <<i - 1, 3 - (i - 1)>>]

\* get_winning_line's scan of the two diagonals
WinningDiagonal(gs) ==
    IF check_main_diagonal(gs) THEN MainDiagonalCoords
    ELSE IF check_anti_diagonal(gs) THEN AntiDiagonalCoords
    ELSE None

\* get_winning_line's scan of the columns from col on, then the diagonals
RECURSIVE WinningColumnFrom(_, _)
WinningColumnFrom(gs, col) ==
    IF col >= 4 THEN WinningDiagonal(gs)
    ELSE IF check_column_win(gs, col) THEN ColumnCoords(col)
    ELSE WinningColumnFrom(gs, col + 1)

\* get_winning_line's scan of the rows from row on, then the columns
RECURSIVE WinningRowFrom(_, _)
WinningRowFrom(gs, row) ==
    IF row >= 4 THEN WinningColumnFrom(gs, 0)
    ELSE IF check_row_win(gs, row) THEN RowCoords(row)
    ELSE WinningRowFrom(gs, row + 1)

\* get_winning_line scanning the columns before the rows
get_winning_line_ColumnsFirst(gs) ==
    IF \E col \in 0 .. 3 : check_column_win(gs, col)
    THEN ColumnCoords(CHOOSE col \in 0 .. 3 :
                          /\ check_column_win(gs, col)
                          /\ \A c \in 0 .. col - 1 : ~check_column_win(gs, c))
    ELSE IF \E row \in 0 .. 3 : check_row_win(gs, row)
    THEN RowCoords(CHOOSE row \in 0 .. 3 :
                       /\ check_row_win(gs, row)
                       /\ \A r \in 0 .. row - 1 : ~check_row_win(gs, r))
    ELSE WinningDiagonal(gs)

get_winning_line(gs) == WinningRowFrom(gs, 0)

(***************************************************************************)
(* Move validation.                                                        *)
(***************************************************************************)
\* is_valid_placement without its check that the cell is empty
is_valid_placement_NoOccupiedCheck(gs, row, col, piece) ==
    IF ~(0 <= row /\ row < 4 /\ 0 <= col /\ col < 4) THEN FALSE
    ELSE IF gs.selected_piece = None THEN FALSE
    ELSE IF piece.id # gs.selected_piece.id THEN FALSE
    ELSE TRUE

\* Python evaluates the conditions left to right and stops at the first
\* that decides: board[row][col] is read only for an in-range cell, and
\* piece.id only when a piece is pending.
is_valid_placement(gs, row, col, piece) ==
    IF \/ ~(0 <= row /\ row < 4 /\ 0 <= col /\ col < 4)
       \/ gs.board[row][col] # None
    THEN FALSE
    ELSE IF gs.selected_piece = None THEN FALSE
    ELSE IF piece.id # gs.selected_piece.id THEN FALSE
    ELSE TRUE

\* is_valid_piece_selection without its check that no piece is pending
is_valid_piece_selection_NoPendingCheck(gs, piece_id) ==
    IF piece_id < 0 \/ piece_id >= 16 THEN FALSE
    ELSE IF piece_id \notin gs.available_pieces THEN FALSE
    ELSE TRUE

is_valid_piece_selection(gs, piece_id) ==
    IF piece_id < 0 \/ piece_id >= 16 THEN FALSE
    ELSE IF piece_id \notin gs.available_pieces THEN FALSE
    ELSE IF gs.selected_piece # None THEN FALSE
    ELSE TRUE

(***************************************************************************)
(* Game flow.  Each operator gives the GameState a call leaves behind and  *)
(* how the call ends: [gs |-> ..., ret |-> ...].                           *)
(***************************************************************************)
\* switch_player leaving the turn with the robot
switch_player_RobotStays(gs) ==
    IF gs.current_player = PLAYER1
    THEN [gs EXCEPT !.current_player = PLAYER2]
    ELSE IF gs.current_player = PLAYER2
    THEN [gs EXCEPT !.current_player = PLAYER1]
    ELSE gs

switch_player(gs) ==
    IF gs.current_player = PLAYER1
    THEN [gs EXCEPT !.current_player = PLAYER2]
    ELSE IF gs.current_player = PLAYER2
    THEN [gs EXCEPT !.current_player = PLAYER1]
    ELSE IF gs.current_player = ROBOT
    THEN [gs EXCEPT !.current_player = PLAYER1]
    ELSE [gs EXCEPT !.current_player = PLAYER1]

is_game_over(gs) == gs.game_status \in {FINISHED, DRAW}

is_draw(gs) ==
    Cardinality(gs.available_pieces) = 0 /\ ~check_for_win(gs)

update_game_status(gs) ==
    IF check_for_win(gs)
    THEN [gs EXCEPT !.game_status = FINISHED, !.winner = gs.current_player]
    ELSE IF is_draw(gs)
    THEN [gs EXCEPT !.game_status = DRAW, !.winner = NoWinner]
    ELSE [gs EXCEPT !.game_status = ONGOING, !.winner = NoWinner]

\* set.remove(x): raises KeyError when x is not in the set
SetRemoveRaises(set, x) == x \notin set

\* make_move without the removal from available_pieces
make_move_body_NoRemove(gs, row, col) ==
    LET placed == [gs EXCEPT !.board[row][col] = gs.selected_piece]
        counted == [placed EXCEPT !.turn_count = @ + 1]
        cleared == [counted EXCEPT !.selected_piece = None]
    IN  [gs |-> update_game_status(cleared), ret |-> Returned(TRUE)]

\* make_move from the line after the validation: the board is written
\* first, and the removal from available_pieces that follows raises
\* KeyError, leaving the rest of the body unexecuted, when the pending
\* piece's id is not in the set.
make_move_body(gs, row, col) ==
    LET placed == [gs EXCEPT !.board[row][col] = gs.selected_piece]
    IN  IF SetRemoveRaises(placed.available_pieces, placed.selected_piece.id)
        THEN [gs |-> placed, ret |-> Raised("KeyError")]
        ELSE LET counted ==
                     [placed EXCEPT
                        !.available_pieces = @ \ {placed.selected_piece.id},
                        !.turn_count = @ + 1]
                 cleared == [counted EXCEPT !.selected_piece = None]
             IN  [gs |-> update_game_status(cleared), ret |-> Returned(TRUE)]

\* make_move reading board[row][col] before any range check: the list
\* index raises IndexError for an index past the end
make_move_RangeUnchecked(gs, row, col) ==
    IF ~(0 <= row /\ row < 4 /\ 0 <= col /\ col < 4)
    THEN [gs |-> gs, ret |-> Raised("IndexError")]
    ELSE IF ~is_valid_placement(gs, row, col, gs.selected_piece)
    THEN [gs |-> gs, ret |-> Returned(FALSE)]
    ELSE make_move_body(gs, row, col)

make_move(gs, row, col) ==
    IF ~is_valid_placement(gs, row, col, gs.selected_piece)
    THEN [gs |-> gs, ret |-> Returned(FALSE)]
    ELSE make_move_body(gs, row, col)

\* select_piece_for_opponent leaving the selected id in available_pieces
select_piece_body_KeepsInPool(gs, piece_id) ==
    LET made == create_piece_from_id(piece_id)
    IN  IF made.kind = "raise"
        THEN [gs |-> gs, ret |-> made]
        ELSE [gs |-> switch_player([gs EXCEPT !.selected_piece = made.val]),
              ret |-> Returned(TRUE)]

\* select_piece_for_opponent from the line after the validation
select_piece_body(gs, piece_id) ==
    LET made == create_piece_from_id(piece_id)
    IN  IF made.kind = "raise"
        THEN [gs |-> gs, ret |-> made]
        ELSE LET selected == [gs EXCEPT !.selected_piece = made.val]
             IN  IF SetRemoveRaises(selected.available_pieces, piece_id)
                 THEN [gs |-> selected, ret |-> Raised("KeyError")]
                 ELSE [gs |-> switch_player(
                                 [selected EXCEPT
                                    !.available_pieces = @ \ {piece_id}]),
                       ret |-> Returned(TRUE)]

select_piece_for_opponent(gs, piece_id) ==
    IF ~is_valid_piece_selection(gs, piece_id)
    THEN [gs |-> gs, ret |-> Returned(FALSE)]
    ELSE select_piece_body(gs, piece_id)

\* reset_game without the reset of the turn counter
\* reset_game without the clearing of the winner
reset_game_KeepsWinner(gs) ==
    [gs EXCEPT
       !.board = EmptyBoard,
       !.available_pieces = 0 .. 15,
       !.selected_piece = None,
       !.game_status = ONGOING,
       !.turn_count = 0,
       !.current_player = PLAYER1]

reset_game_KeepsTurnCount(gs) ==
    [gs EXCEPT
       !.board = EmptyBoard,
       !.available_pieces = 0 .. 15,
       !.selected_piece = None,
       !.game_status = ONGOING,
       !.winner = NoWinner,
       !.current_player = PLAYER1]

reset_game(gs) ==
    [gs EXCEPT
       !.board = EmptyBoard,
       !.available_pieces = 0 .. 15,
       !.selected_piece = None,
       !.game_status = ONGOING,
       !.winner = NoWinner,
       !.turn_count = 0,
       !.current_player = PLAYER1]

(***************************************************************************)
(* The engine driven by a host: one action per call.                       *)
(***************************************************************************)
Init ==
    /\ start_player \in Player
    /\ game_state = NewGameState(start_player)
    /\ op = "new"
    /\ ret = ReturnedNone

MakeMove(row, col) ==
    /\ game_state' = make_move(game_state, row, col).gs
    /\ ret' = make_move(game_state, row, col).ret
    /\ op' = "make_move"
    /\ UNCHANGED start_player

SelectPiece(piece_id) ==
    /\ game_state' = select_piece_for_opponent(game_state, piece_id).gs
    /\ ret' = select_piece_for_opponent(game_state, piece_id).ret
    /\ op' = "select_piece_for_opponent"
    /\ UNCHANGED start_player

ResetGame ==
    /\ game_state' = reset_game(game_state)
    /\ ret' = ReturnedNone
    /\ op' = "reset_game"
    /\ UNCHANGED start_player

Next ==
    \/ \E piece_id \in PieceIdInputs : SelectPiece(piece_id)
    \/ \E cell \in MoveInputs : MakeMove(cell[1], cell[2])
    \/ ResetGame

Spec == Init /\ [][Next]_vars

(***************************************************************************)
(* The GameState primitive and the status recomputation called by a host   *)
(* directly, besides the engine's calls.                                   *)
(***************************************************************************)
\* game_state.py GameState.place_piece
place_piece(gs, row, col, piece) ==
    IF /\ 0 <= row /\ row < 4
       /\ 0 <= col /\ col < 4
       /\ gs.board[row][col] = None
       /\ piece.id \in gs.available_pieces
    THEN [gs |-> [gs EXCEPT
                    !.board[row][col] = piece,
                    !.available_pieces = @ \ {piece.id},
                    !.selected_piece = None,
                    !.turn_count = @ + 1],
          ret |-> Returned(TRUE)]
    ELSE [gs |-> gs, ret |-> Returned(FALSE)]

\* a host's run of place_piece calls, each <<row, col, piece id>>, on gs
RECURSIVE PlaceAll(_, _)
PlaceAll(gs, script) ==
    IF script = <<>> THEN gs
    ELSE PlaceAll(place_piece(gs, script[1][1], script[1][2],
                              PieceOf(script[1][3])).gs,
                  Tail(script))

\* row 0 holds the pieces 0, 2, 4, 6 and every other cell is empty
Scenario2Script == <<<<0, 0, 0>>, <<0, 1, 2>>, <<0, 2, 4>>, <<0, 3, 6>>>>

\* all 16 cells filled and no row, column or diagonal sharing an attribute
Scenario3Script ==
    << <<0, 0, 12>>, <<0, 1, 8>>,  <<0, 2, 2>>,  <<0, 3, 7>>,
       <<1, 0, 5>>,  <<1, 1, 0>>,  <<1, 2, 10>>, <<1, 3, 4>>,
       <<2, 0, 11>>, <<2, 1, 14>>, <<2, 2, 9>>,  <<2, 3, 3>>,
       <<3, 0, 1>>,  <<3, 1, 13>>, <<3, 2, 6>>,  <<3, 3, 15>> >>

HostScripts == {Scenario2Script, Scenario3Script}

\* the host has set a position up through GameState.place_piece
InitHost ==
    /\ start_player \in Player
    /\ \E script \in HostScripts :
           game_state = PlaceAll(NewGameState(start_player), script)
    /\ op = "place_piece"
    /\ ret = Returned(TRUE)

UpdateGameStatus ==
    /\ game_state' = update_game_status(game_state)
    /\ ret' = ReturnedNone
    /\ op' = "update_game_status"
    /\ UNCHANGED start_player

NextHost ==
    \/ \E piece_id \in PieceIdInputs : SelectPiece(piece_id)
    \/ \E cell \in MoveInputs : MakeMove(cell[1], cell[2])
    \/ ResetGame
    \/ UpdateGameStatus

SpecHost == InitHost /\ [][NextHost]_vars

(***************************************************************************)
(* The win detection applied to boards a caller constructs.                *)
(***************************************************************************)
\* the ten lines: rows 0..3, columns 0..3, main diagonal, anti-diagonal
ScanLine(i) ==
    IF i <= 4 THEN [k \in 1 .. 4 |-> <<i - 1, k - 1>>]
    ELSE IF i <= 8 THEN [k \in 1 .. 4 |-> <<k - 1, i - 5>>]
    ELSE IF i = 9 THEN [k \in 1 .. 4 |-> <<k - 1, k - 1>>]
    ELSE [k \in 1 .. 4 |-> <<k - 1, 4 - k>>]

\* piece ids the constructed boards use: 0 and 7 share hollow only, 0 and 11
\* share dark only, 7 and 11 share tall and square, the three share nothing
BoardPieceIds == {0, 7, 11}
FillInputs == {None} \cup {PieceOf(id) : id \in BoardPieceIds}
LineInputs == [1 .. 4 -> FillInputs]

\* board with the four cells of line written with fill
WriteLine(b, line, fill) ==
    [row \in 0 .. 3 |-> [col \in 0 .. 3 |->
        IF \E i \in 1 .. 4 : line[i] = <<row, col>>
        THEN fill[CHOOSE i \in 1 .. 4 : line[i] = <<row, col>>]
        ELSE b[row][col]]]

\* one line filled with four copies of piece 0, and a second line written
\* over it cell by cell
BoardInputs ==
    { WriteLine(WriteLine(EmptyBoard, ScanLine(l2), [i \in 1 .. 4 |-> PieceOf(0)]),
                ScanLine(l1), fill) :
        l1 \in 1 .. 10, l2 \in 1 .. 10, fill \in LineInputs }

InitWin ==
    /\ start_player = PLAYER1
    /\ \E b \in BoardInputs :
           game_state = [NewGameState(start_player) EXCEPT !.board = b]
    /\ op = "new"
    /\ ret = ReturnedNone

CheckForWin ==
    /\ ret' = Returned(check_for_win(game_state))
    /\ op' = "check_for_win"
    /\ UNCHANGED <<game_state, start_player>>

GetWinningLine ==
    /\ ret' = IF get_winning_line(game_state) = None
              THEN ReturnedNone
              ELSE Returned(get_winning_line(game_state))
    /\ op' = "get_winning_line"
    /\ UNCHANGED <<game_state, start_player>>

NextWin == CheckForWin \/ GetWinningLine

SpecWin == InitWin /\ [][NextWin]_vars

(***************************************************************************)
(* Properties.                                                             *)
(***************************************************************************)
Cells == (0 .. 3) \X (0 .. 3)
Occupied(gs) == {cell \in Cells : gs.board[cell[1]][cell[2]] # None}
PlacedIds(gs) == {gs.board[cell[1]][cell[2]].id : cell \in Occupied(gs)}
SelectedIds(gs) ==
    IF gs.selected_piece = None THEN {} ELSE {gs.selected_piece.id}
InRange(row, col) == row \in 0 .. 3 /\ col \in 0 .. 3
EngineCalls == {"make_move", "select_piece_for_opponent"}

\* the status a placement is to leave: decided on the state after it, for
\* the player who placed
StatusRule(after, mover) ==
    IF check_for_win(after)
    THEN after.game_status = FINISHED /\ after.winner = mover
    ELSE IF after.available_pieces = {}
    THEN after.game_status = DRAW /\ after.winner = NoWinner
    ELSE after.game_status = ONGOING /\ after.winner = NoWinner

\* every success effect of make_move(row, col) is in place
MoveApplied(row, col) ==
    /\ InRange(row, col)
    /\ game_state.selected_piece # None
    /\ game_state.board[row][col] = None
    /\ game_state'.board =
           [game_state.board EXCEPT ![row][col] = game_state.selected_piece]
    /\ game_state'.selected_piece = None
    /\ game_state'.turn_count = game_state.turn_count + 1
    /\ game_state'.current_player = game_state.current_player
    /\ StatusRule(game_state', game_state.current_player)

\* every success effect of select_piece_for_opponent(piece_id) is in place
SelectionApplied(piece_id) ==
    /\ piece_id \in game_state.available_pieces
    /\ game_state'.available_pieces = game_state.available_pieces \ {piece_id}
    /\ game_state'.selected_piece # None
    /\ game_state'.selected_piece.id = piece_id
    /\ game_state'.selected_piece.tall = (piece_id % 2 = 1)
    /\ game_state'.selected_piece.square = ((piece_id \div 2) % 2 = 1)
    /\ game_state'.selected_piece.light = ((piece_id \div 4) % 2 = 1)
    /\ game_state'.selected_piece.solid = ((piece_id \div 8) % 2 = 1)
    /\ game_state'.current_player =
           (IF game_state.current_player = PLAYER1 THEN PLAYER2 ELSE PLAYER1)
    /\ game_state'.board = game_state.board
    /\ game_state'.turn_count = game_state.turn_count
    /\ game_state'.game_status = game_state.game_status
    /\ game_state'.winner = game_state.winner

\* C1: a make_move or select_piece_for_opponent call either returns true
\* with all of its success effects applied or returns false with the
\* GameState as it was; no call ends, by return or by a raised error, in
\* between.
C1_Atomic ==
    [][ op' \in EngineCalls =>
          \/ ret' = Returned(FALSE) /\ game_state' = game_state
          \/ /\ ret' = Returned(TRUE)
             /\ op' = "make_move"
             /\ \E cell \in Cells : MoveApplied(cell[1], cell[2])
          \/ /\ ret' = Returned(TRUE)
             /\ op' = "select_piece_for_opponent"
             /\ \E piece_id \in 0 .. 15 : SelectionApplied(piece_id) ]_vars

\* C2: available_pieces, the ids on the board and the pending id are
\* pairwise disjoint and together are exactly 0..15.
C2_Partition ==
    /\ game_state.available_pieces \cap PlacedIds(game_state) = {}
    /\ game_state.available_pieces \cap SelectedIds(game_state) = {}
    /\ PlacedIds(game_state) \cap SelectedIds(game_state) = {}
    /\ game_state.available_pieces \cup PlacedIds(game_state)
           \cup SelectedIds(game_state) = 0 .. 15

\* C3: with a piece p pending and (row, col) an in-range empty cell,
\* make_move(row, col) returns true and leaves p in board[row][col], no
\* piece pending, turn_count one greater and the status recomputed.
C3_Placement ==
    [][ \A cell \in MoveInputs :
          ( /\ MakeMove(cell[1], cell[2])
            /\ InRange(cell[1], cell[2])
            /\ game_state.selected_piece # None
            /\ game_state.board[cell[1]][cell[2]] = None )
          => /\ ret' = Returned(TRUE)
             /\ game_state'.board[cell[1]][cell[2]] = game_state.selected_piece
             /\ game_state'.selected_piece = None
             /\ game_state'.turn_count = game_state.turn_count + 1
             /\ StatusRule(game_state', game_state.current_player) ]_vars

\* C4: select_piece_for_opponent(id) returns true exactly when id is in
\* 0..15, id is in available_pieces and no piece is pending, and false
\* otherwise; so it fails whenever a piece is pending.
C4_SelectionLegal ==
    [][ \A piece_id \in PieceIdInputs :
          SelectPiece(piece_id)
          => /\ ret' \in {Returned(TRUE), Returned(FALSE)}
             /\ (ret' = Returned(TRUE))
                  <=> ( /\ piece_id \in 0 .. 15
                        /\ piece_id \in game_state.available_pieces
                        /\ game_state.selected_piece = None ) ]_vars

\* a selection of an id still in the pool was rejected because a piece is pending
C4_Witness ==
    /\ op = "select_piece_for_opponent"
    /\ ret = Returned(FALSE)
    /\ game_state.selected_piece # None
    /\ (0 .. MaxPieceId) \ SelectedIds(game_state)
           \subseteq game_state.available_pieces

\* C5: a successful select_piece_for_opponent(id) removes exactly id from
\* available_pieces, makes the piece with that id the pending piece and
\* switches current_player, and leaves board, turn_count, game_status and
\* winner as they were.
C5_SelectionEffects ==
    [][ \A piece_id \in PieceIdInputs :
          (SelectPiece(piece_id) /\ ret' = Returned(TRUE))
          => SelectionApplied(piece_id) ]_vars

\* player1 has selected piece 0 on a fresh game
C5_Witness ==
    /\ op = "select_piece_for_opponent"
    /\ ret = Returned(TRUE)
    /\ start_player = PLAYER1
    /\ game_state.current_player = PLAYER2
    /\ Cardinality(game_state.available_pieces) = 15
    /\ game_state.selected_piece = PieceOf(0)
    /\ Occupied(game_state) = {}

\* C6: once game_status is finished or draw, every select_piece_for_opponent
\* and make_move call returns false and leaves the GameState untouched.
C6_TerminalRejects ==
    [][ (is_game_over(game_state) /\ op' \in EngineCalls)
          => (ret' = Returned(FALSE) /\ game_state' = game_state) ]_vars

\* C7: once game_status is finished or draw, no select_piece_for_opponent
\* or make_move attempt changes game_status or winner.
C7_TerminalSteady ==
    [][ (is_game_over(game_state) /\ op' \in EngineCalls)
          => /\ game_state'.game_status = game_state.game_status
             /\ game_state'.winner = game_state.winner ]_vars

\* on a finished game the next player was given a piece and tried to place
\* it, and the recorded winner is still the first one
C7_Witness ==
    /\ game_state.game_status = FINISHED
    /\ game_state.winner = start_player
    /\ game_state.current_player # game_state.winner
    /\ game_state.selected_piece # None
    /\ op = "make_move"
    /\ ret # Returned(FALSE)

\* C8: a placement leaves game_status finished with the mover as winner if
\* check_for_win holds, else draw with no winner if the pool is empty, else
\* ongoing with no winner.
C8_StatusRecomputed ==
    [][ \A cell \in MoveInputs :
          ( /\ MakeMove(cell[1], cell[2])
            /\ InRange(cell[1], cell[2])
            /\ game_state.selected_piece # None
            /\ game_state.board[cell[1]][cell[2]] = None
            /\ game_state'.board[cell[1]][cell[2]] = game_state.selected_piece )
          => StatusRule(game_state', game_state.current_player) ]_vars

Attributes == {"tall", "square", "light", "solid"}
LineCells(i) == {ScanLine(i)[k] : k \in 1 .. 4}
At(gs, cell) == gs.board[cell[1]][cell[2]]
LineFull(gs, i) == \A cell \in LineCells(i) : At(gs, cell) # None
\* the attributes on which all the pieces of a full line agree
SharedAttributes(gs, i) ==
    {attr \in Attributes :
        \A x \in LineCells(i), y \in LineCells(i) :
            At(gs, x)[attr] = At(gs, y)[attr]}
LineWins(gs, i) == LineFull(gs, i) /\ SharedAttributes(gs, i) # {}
WinningLines(gs) == {i \in 1 .. 10 : LineWins(gs, i)}

\* C9: check_for_win is true exactly when one of the ten lines is fully
\* occupied and its four pieces agree on at least one attribute.
C9_WinIffLine ==
    op = "check_for_win"
        => ret = Returned(WinningLines(game_state) # {})

\* check_for_win answered true on a board whose only winning line is the
\* anti-diagonal, its four pieces sharing exactly one attribute
C9_Witness ==
    /\ op = "check_for_win"
    /\ ret = Returned(TRUE)
    /\ WinningLines(game_state) = {10}
    /\ Cardinality(SharedAttributes(game_state, 10)) = 1

\* C10: get_winning_line returns None exactly when check_for_win is false,
\* and otherwise the coordinates of the first winning line in the order
\* rows 0..3, columns 0..3, main diagonal, anti-diagonal.
C10_FirstWinningLine ==
    op = "get_winning_line"
        => /\ (ret = ReturnedNone) <=> ~check_for_win(game_state)
           /\ (ret = ReturnedNone) <=> (WinningLines(game_state) = {})
           /\ WinningLines(game_state) # {}
                => ret = Returned(ScanLine(
                       CHOOSE i \in WinningLines(game_state) :
                           \A j \in WinningLines(game_state) : i <= j))

\* a row and a column win at once and get_winning_line gave the row
C10_Witness ==
    /\ op = "get_winning_line"
    /\ \E i \in 1 .. 4, j \in 5 .. 8 :
           /\ WinningLines(game_state) = {i, j}
           /\ ret = Returned(ScanLine(i))

\* C11: make_move on an occupied cell returns false and leaves the
\* GameState as it was, and the same call made again is rejected the same
\* way.
C11_OccupiedRejected ==
    [][ \A cell \in MoveInputs :
          ( /\ MakeMove(cell[1], cell[2])
            /\ InRange(cell[1], cell[2])
            /\ game_state.board[cell[1]][cell[2]] # None )
          => /\ ret' = Returned(FALSE)
             /\ game_state'.board = game_state.board
             /\ game_state' = game_state
             /\ make_move(game_state', cell[1], cell[2])
                  = [gs |-> game_state', ret |-> Returned(FALSE)] ]_vars

\* a piece is pending, every in-range cell tried is occupied but one, and a
\* make_move was rejected
C11_Witness ==
    /\ op = "make_move"
    /\ ret = Returned(FALSE)
    /\ game_state.selected_piece # None
    /\ Cardinality(Occupied(game_state)) = MaxCell

\* what reset_game is to leave besides current_player: an empty board, the
\* full pool, no pending piece, status ongoing, no winner, turn_count 0
ResetLeavesFresh(gs) ==
    /\ \A cell \in Cells : gs.board[cell[1]][cell[2]] = None
    /\ gs.available_pieces = 0 .. 15
    /\ gs.selected_piece = None
    /\ gs.game_status = ONGOING
    /\ gs.winner = NoWinner
    /\ gs.turn_count = 0

\* C12 as stated: after reset_game the GameState is fresh and
\* current_player is the player the game was created with.
C12_ResetToStartingPlayer ==
    op = "reset_game"
        => /\ ResetLeavesFresh(game_state)
           /\ game_state.current_player = start_player

\* C12 as amended: after reset_game the GameState is fresh and
\* current_player is player1, whichever player the game was created with.
C12_ResetToPlayer1 ==
    [][ op' = "reset_game"
          => /\ ResetLeavesFresh(game_state')
             /\ game_state'.current_player = PLAYER1 ]_vars

\* a game created for the robot, with pieces placed and a status set, has
\* just been reset
C12_Witness ==
    /\ op = "reset_game"
    /\ start_player = ROBOT
    /\ game_state.current_player = PLAYER1
    /\ game_state.turn_count = 0

\* C13: under select_piece_for_opponent and make_move calls a cell that
\* holds a piece holds the same piece ever after.
C13_MonotonicFill ==
    [][ op' \in EngineCalls
          => \A cell \in Cells :
                 game_state.board[cell[1]][cell[2]] # None
                 => game_state'.board[cell[1]][cell[2]]
                        = game_state.board[cell[1]][cell[2]] ]_vars

\* row 0 holds the pieces 0, 2, 4, 6 and another piece has been put on the
\* board since
C13_Witness ==
    /\ op = "make_move"
    /\ \A col \in 0 .. 3 : game_state.board[0][col] = PieceOf(2 * col)
    /\ Cardinality(Occupied(game_state)) > 4

\* C14: select_piece_for_opponent with an id outside 0..15 and make_move
\* with a row or column outside 0..3 return false, raise nothing and leave
\* the GameState as it was.
C14_InvalidArguments ==
    [][ /\ \A piece_id \in PieceIdInputs \ (0 .. 15) :
               SelectPiece(piece_id)
               => ret' = Returned(FALSE) /\ game_state' = game_state
        /\ \A cell \in MoveInputs :
               (MakeMove(cell[1], cell[2]) /\ ~InRange(cell[1], cell[2]))
               => ret' = Returned(FALSE) /\ game_state' = game_state ]_vars

\* a piece is pending and the board is empty, so the make_move that was
\* rejected named a cell out of range
C14_Witness ==
    /\ op = "make_move"
    /\ ret = Returned(FALSE)
    /\ game_state.selected_piece # None
    /\ Occupied(game_state) = {}

\* C15: current_player changes on a successful selection only, to player2
\* from player1 and to player1 from player2 or the robot; a placement or a
\* rejected call leaves it.
C15_TurnSwitch ==
    [][ op' \in EngineCalls
          => IF op' = "select_piece_for_opponent" /\ ret' = Returned(TRUE)
             THEN /\ game_state.current_player = PLAYER1
                       => game_state'.current_player = PLAYER2
                  /\ game_state.current_player \in {PLAYER2, ROBOT}
                       => game_state'.current_player = PLAYER1
             ELSE game_state'.current_player = game_state.current_player ]_vars

\* the robot selected a piece and player1 has placed it
C15_Witness ==
    /\ start_player = ROBOT
    /\ game_state.current_player = PLAYER1
    /\ game_state.selected_piece # None
    /\ Occupied(game_state) # {}
    /\ op = "make_move"

\* C16: turn_count goes up by exactly one on each make_move that places a
\* piece and is left as it was by every selection and every rejected call.
C16_TurnCountCountsPlacements ==
    [][ op' \in EngineCalls
          => IF op' = "make_move" /\ game_state'.board # game_state.board
             THEN game_state'.turn_count = game_state.turn_count + 1
             ELSE game_state'.turn_count = game_state.turn_count ]_vars

\* C17: the winner is present exactly when game_status is finished; it is
\* absent in the ongoing and draw states.
C17_WinnerIffFinished ==
    /\ game_state.winner # NoWinner <=> game_state.game_status = FINISHED
    /\ game_state.game_status \in {ONGOING, DRAW}
           => game_state.winner = NoWinner

\* update_game_status found a win and named the player to move the winner
C17_Witness ==
    /\ op = "update_game_status"
    /\ game_state.game_status = FINISHED
    /\ game_state.winner = game_state.current_player
    /\ game_state.winner \in Player

(***************************************************************************)
(* The engine with its queries: calls that read and leave the GameState.   *)
(***************************************************************************)
\* [create_piece_from_id(piece_id) for piece_id in range(16)]
get_all_pieces ==
    LET made == [i \in 1 .. 16 |-> create_piece_from_id(i - 1)]
    IN  IF \E i \in 1 .. 16 : made[i] = Raised("ValueError")
        THEN Raised("ValueError")
        ELSE Returned([i \in 1 .. 16 |-> made[i].val])

\* for row in range(4): for col in range(4)
RowMajorCells == [i \in 1 .. 16 |-> <<(i - 1) \div 4, (i - 1) % 4>>]

get_valid_placements(gs) ==
    IF gs.selected_piece = None
    THEN <<>>
    ELSE SelectSeq(RowMajorCells,
                   LAMBDA cell :
                       is_valid_placement(gs, cell[1], cell[2],
                                          gs.selected_piece))

\* available_pieces.copy(): sets are values here, the copy is the set
get_available_pieces_for_selection(gs) == gs.available_pieces

\* the valid ids and one id on each side of them
CreateInputs == -1 .. 16

CreatePiece(piece_id) ==
    /\ op' = "create_piece_from_id"
    /\ ret' = create_piece_from_id(piece_id)
    /\ UNCHANGED <<game_state, start_player>>

GetAllPieces ==
    /\ op' = "get_all_pieces"
    /\ ret' = get_all_pieces
    /\ UNCHANGED <<game_state, start_player>>

GetValidPlacements ==
    /\ op' = "get_valid_placements"
    /\ ret' = Returned(get_valid_placements(game_state))
    /\ UNCHANGED <<game_state, start_player>>

GetAvailablePieces ==
    /\ op' = "get_available_pieces_for_selection"
    /\ ret' = Returned(get_available_pieces_for_selection(game_state))
    /\ UNCHANGED <<game_state, start_player>>

NextQuery ==
    \/ \E piece_id \in CreateInputs : CreatePiece(piece_id)
    \/ GetAllPieces
    \/ GetValidPlacements
    \/ GetAvailablePieces

SpecQuery == Init /\ [][Next \/ NextQuery]_vars

\* the piece the id stands for: attribute k is bit k of the id
BitwisePiece(piece_id) ==
    [ id     |-> piece_id,
      tall   |-> piece_id % 2 = 1,
      square |-> (piece_id \div 2) % 2 = 1,
      light  |-> (piece_id \div 4) % 2 = 1,
      solid  |-> (piece_id \div 8) % 2 = 1 ]
AttributeTuple(piece) ==
    <<piece.tall, piece.square, piece.light, piece.solid>>

\* C18: create_piece_from_id gives, for an id in 0..15, the piece whose
\* tall, square, light, solid are bits 0, 1, 2, 3 of the id, and fails with
\* a range error for any other id; get_all_pieces gives the 16 pieces in
\* ascending id order, pairwise distinct in their attribute tuples.
C18_PieceFromId ==
    [][ /\ \A piece_id \in CreateInputs :
               CreatePiece(piece_id)
               => ret' = (IF piece_id \in 0 .. 15
                          THEN Returned(BitwisePiece(piece_id))
                          ELSE Raised("ValueError"))
        /\ GetAllPieces
               => /\ ret'.kind = "return"
                  /\ Len(ret'.val) = 16
                  /\ \A i \in 1 .. 16 : ret'.val[i] = BitwisePiece(i - 1)
                  /\ \A i, j \in 1 .. 16 :
                         i # j => AttributeTuple(ret'.val[i])
                                      # AttributeTuple(ret'.val[j]) ]_vars

\* get_all_pieces has returned, ending with the piece 15 that has all four
\* attributes
C18_Witness ==
    /\ op = "get_all_pieces"
    /\ ret.kind = "return"
    /\ Len(ret.val) = 16
    /\ AttributeTuple(ret.val[16]) = <<TRUE, TRUE, TRUE, TRUE>>

\* C19: successful selections and placements alternate, a selection first:
\* a selection succeeds only when no selected piece waits to be placed, and
\* a make_move places a piece only when a selection has been made whose
\* piece is not yet on the board.
C19_StrictAlternation ==
    [][ /\ (op' = "select_piece_for_opponent" /\ ret' = Returned(TRUE))
               => game_state.selected_piece = None
        /\ (op' = "make_move" /\ game_state'.board # game_state.board)
               => /\ game_state.selected_piece # None
                  /\ SelectedIds(game_state) \cap PlacedIds(game_state) = {} ]_vars

ListedCells(list) == {list[i] : i \in 1 .. Len(list)}

\* C20: get_valid_placements returns exactly the empty cells when a piece
\* is pending and the empty list when none is, and make_move succeeds on
\* every cell returned; get_available_pieces_for_selection returns the
\* pool, and with no piece pending select_piece_for_opponent succeeds on
\* every id returned.
C20_EnumerationsAgree ==
    [][ /\ GetValidPlacements
               => /\ Len(ret'.val) = Cardinality(ListedCells(ret'.val))
                  /\ ListedCells(ret'.val) =
                         (IF game_state.selected_piece = None
                          THEN {}
                          ELSE Cells \ Occupied(game_state))
                  /\ \A cell \in ListedCells(ret'.val) :
                         make_move(game_state, cell[1], cell[2]).ret
                             = Returned(TRUE)
        /\ GetAvailablePieces
               => /\ ret'.val = game_state.available_pieces
                  /\ game_state.selected_piece = None
                         => \A piece_id \in ret'.val :
                                select_piece_for_opponent(game_state,
                                                          piece_id).ret
                                    = Returned(TRUE) ]_vars

(***************************************************************************)
(* The end of a game: fifteen pieces are on the board and one is left.     *)
(***************************************************************************)
\* game_state.py GameState.is_board_full
is_board_full(gs) == Cardinality(gs.available_pieces) = 0

\* game_state.py GameState.get_empty_positions
get_empty_positions(gs) ==
    SelectSeq(RowMajorCells, LAMBDA cell : gs.board[cell[1]][cell[2]] = None)

\* the drawn board without its piece 2: cell (0, 2) is empty
EndgameScript ==
    SelectSeq(Scenario3Script, LAMBDA step : step # <<0, 2, 2>>)

InitEndgame ==
    /\ start_player \in Player
    /\ game_state = PlaceAll(NewGameState(start_player), EndgameScript)
    /\ op = "place_piece"
    /\ ret = Returned(TRUE)

IsBoardFull ==
    /\ op' = "is_board_full"
    /\ ret' = Returned(is_board_full(game_state))
    /\ UNCHANGED <<game_state, start_player>>

GetEmptyPositions ==
    /\ op' = "get_empty_positions"
    /\ ret' = Returned(get_empty_positions(game_state))
    /\ UNCHANGED <<game_state, start_player>>

NextEndgame ==
    \/ NextHost
    \/ IsBoardFull
    \/ GetEmptyPositions

SpecEndgame == InitEndgame /\ [][NextEndgame]_vars

\* C21: is_board_full is true exactly when all 16 cells are occupied, that
\* is when get_empty_positions is empty, also when the last piece has been
\* selected and is not yet placed.
C21_BoardFullIffNoEmptyCell ==
    /\ op = "is_board_full"
           => (ret = Returned(TRUE)
                   <=> /\ Occupied(game_state) = Cells
                       /\ get_empty_positions(game_state) = <<>>)
    /\ op = "get_empty_positions"
           => ListedCells(ret.val) = Cells \ Occupied(game_state)

\* C22: a game is bounded and ends: turn_count never exceeds 16 and equals
\* the number of occupied cells, and a board with all 16 cells occupied is
\* in game_status finished or draw.
C22_BoundedGame ==
    /\ game_state.turn_count <= 16
    /\ game_state.turn_count = Cardinality(Occupied(game_state))
    /\ Occupied(game_state) = Cells => is_game_over(game_state)

====
